---- MODULE Spec2Model ----
(***************************************************************************)
(* Content desk generation orchestrator and status streaming.              *)
(*                                                                         *)
(*   backend/lib/content_desk/desk.py      ContentDesk (orchestrator,      *)
(*                                         sse_client_queues registry)     *)
(*   backend/lib/content/generation.py     ContentGenerator.run            *)
(*   backend/lib/content/sources/*.py      sourcing strategies             *)
(*   backend/api/content_desk.py           trigger and SSE endpoints       *)
(*                                                                         *)
(* Every await of the code is a suspension point of the asyncio loop: the  *)
(* store applies a write at one step, the coroutine resumes and publishes  *)
(* at a later one.  The agent calls of one sourcer.get touch no shared     *)
(* state and are taken as one step.                                        *)
(***************************************************************************)
EXTENDS Integers, Sequences, FiniteSets, TLC

\* ---------------------------------------------------------------- bounds
MaxRuns == 4
MaxStreams == 2
\* store operations (reads and writes of either collection) that may fail
MaxFaults == 1
\* persisted updates of one desk document (each stamps updated_at)
MaxStamp == 6

\* ---------------------------------------------------------------- program constants
ErrorTruncation == 500
MsgCreatedLen == 13
MsgStartingLen == 30
MsgCompleteLen == 28
MsgAllDoneLen == 44
MsgFailedPrefixLen == 27
PlatformErrPrefixLen == 39
ShortErrLen == 40
LongErrLen == 600

Runs == 1..MaxRuns
Streams == 1..MaxStreams

DeskIds == {"d1", "d2"}
MissingId == "nodesk"
NoStream == 0

Platforms == {"LinkedIn", "Twitter", "Facebook"}
ContentTypes == {"News Roundup", "Manufacturing Metrices", "Blog"}
Texts == {"X", "Y"}
NoneValue == "None"
Feedbacks == {"f1"}
ErrLens == {ShortErrLen, LongErrLen}

Min(a, b) == IF a < b THEN a ELSE b

\* ---------------------------------------------------------------- GenerationStatus
Message(text, reason, len) == [text |-> text, reason |-> reason, len |-> len]

GenerationStatus(phase, status_text, message) ==
    [phase |-> phase, status_text |-> status_text, message |-> message]

DeskCreated ==
    GenerationStatus("not_running", "success", Message("Desk created.", "", MsgCreatedLen))

StatusProcessing ==
    GenerationStatus("content", "processing",
                     Message("Starting content generation...", "", MsgStartingLen))

StatusComplete ==
    GenerationStatus("content", "success",
                     Message("Content generation complete.", "", MsgCompleteLen))

StatusAllDone ==
    GenerationStatus("content", "success",
                     Message("All generation steps completed successfully.", "", MsgAllDoneLen))

\* (variant: a fixed error message that drops str(e))
StatusError_NoReason(e) ==
    GenerationStatus("content", "error",
                     Message("Content generation failed: ", "", MsgFailedPrefixLen))

\* f"Content generation failed: {str(e)[:500]}"
StatusError(e) ==
    GenerationStatus("content", "error",
                     Message("Content generation failed: ", e.kind,
                             MsgFailedPrefixLen + Min(e.len, ErrorTruncation)))

NoExc == [kind |-> "none", len |-> 0]
Exc(kind, len) == [kind |-> kind, len |-> len]

\* ---------------------------------------------------------------- state
VARIABLES
    deskCfg,            \* desk_id -> the desk document without its status: content_type,
                        \* platform, created_at, updated_at  (content_desks collection)
    deskStatus,         \* desk_id -> GenerationStatus              (content_desks.status)
    content,            \* desk_id -> [feedback, result]            (contents collection)
    sse_client_queues,  \* desk_id -> stream whose queue is registered, or NoStream
    run,                \* run -> the locals of one background invocation
    stream,             \* stream -> the locals of one SSE event_generator
    faults,             \* store operations that have failed so far
    polled              \* the last two answers of GET /desk/{id}/status, oldest first

vars == <<deskCfg, deskStatus, content, sse_client_queues, run, stream, faults, polled>>

EmptyContent == [feedback |-> "", result |-> ""]

\* The document content_id refers to is not in the contents collection.
NoContent == [feedback |-> "missing", result |-> "missing"]

\* The time of creation; updated_at counts the updates persisted since.
CreatedAt == 0

DeskDoc(content_type, platform) ==
    [content_type |-> content_type, platform |-> platform,
     created_at |-> CreatedAt, updated_at |-> CreatedAt]

\* pc: where the invocation is suspended; step: which status _update_status
\* is writing; writes: the store writes it attempted, in order; calls: the
\* agent_manager calls it made, in order; outcome: how the invocation ended.
IdleRun ==
    [pc |-> "idle", step |-> "none", kind |-> "none", desk |-> MissingId, resp |-> 0,
     exc |-> NoExc, data |-> EmptyContent, formatted |-> "",
     writes |-> <<>>, calls |-> <<>>, sourced |-> FALSE, outcome |-> "none"]

\* queue: the asyncio.Queue of the generator; events: what it has yielded to
\* the client, in order.
IdleStream ==
    [pc |-> "idle", desk |-> MissingId, queue |-> <<>>, events |-> <<>>]

\* Both desks exist.  The Content record d1 refers to may be absent from the
\* contents collection (taken with one platform).
Init ==
    /\ deskCfg \in [DeskIds -> {DeskDoc(t, p) : t \in ContentTypes, p \in Platforms}]
    /\ deskCfg["d2"] = DeskDoc("News Roundup", "LinkedIn")
    /\ deskStatus = [d \in DeskIds |-> DeskCreated]
    /\ content \in [DeskIds -> {EmptyContent, NoContent}]
    /\ content["d2"] = EmptyContent
    /\ content["d1"] = NoContent => deskCfg["d1"].platform = "LinkedIn"
    /\ sse_client_queues = [d \in DeskIds |-> NoStream]
    /\ run = [r \in Runs |-> IdleRun]
    /\ stream = [s \in Streams |-> IdleStream]
    /\ faults = 0
    /\ polled = <<>>

\* ---------------------------------------------------------------- Generation Pipeline
Sourcers == {"News Roundup", "Manufacturing Metrices", "Manufacturing Business Models"}

ErrorDictTopic == "error: Could not determine a relevant topic."
ErrorDictNews == "error: Could not gather news for topic"
NonText == {NoneValue, ErrorDictTopic, ErrorDictNews}

\* AgentManager.chat_with_agent: the "response" field (text, or None when
\* absent), or the aiohttp error re-raised.
AgentOutcomes ==
    {[ret |-> t, exc |-> NoExc] : t \in Texts \cup {NoneValue}}
        \cup {[ret |-> NoneValue, exc |-> Exc("AgentError", l)] : l \in ErrLens}

Returned(calls, ret) == [calls |-> calls, ret |-> ret, exc |-> NoExc]
Raised(calls, e) == [calls |-> calls, ret |-> NoneValue, exc |-> e]

NewsSourcer_format_news(platform, fmt) ==
    IF platform = "LinkedIn"
    THEN IF fmt.exc # NoExc THEN Raised(<<"format_news_linkedin">>, fmt.exc)
         ELSE Returned(<<"format_news_linkedin">>, fmt.ret)
    ELSE IF platform = "Twitter"
    THEN IF fmt.exc # NoExc THEN Raised(<<"format_news_twitter">>, fmt.exc)
         ELSE Returned(<<"format_news_twitter">>, fmt.ret)
    ELSE Raised(<<>>, Exc("UnsupportedPlatform", PlatformErrPrefixLen + 8))

NewsSourcer_get(platform, sel, news, fmt) ==
    IF sel.exc # NoExc THEN Raised(<<"select_topic">>, sel.exc)
    ELSE IF sel.ret = NoneValue THEN Returned(<<"select_topic">>, ErrorDictTopic)
    ELSE IF news.exc # NoExc THEN Raised(<<"select_topic", "source_news">>, news.exc)
    ELSE IF news.ret = NoneValue
    THEN Returned(<<"select_topic", "source_news">>, ErrorDictNews)
    ELSE LET f == NewsSourcer_format_news(platform, fmt)
         IN  [f EXCEPT !.calls = <<"select_topic", "source_news">> \o @]

ManufacturingMetrices_get(source, fmt) ==
    IF source.exc # NoExc THEN Raised(<<"source_manufacturing_metrices">>, source.exc)
    ELSE IF fmt.exc # NoExc
    THEN Raised(<<"source_manufacturing_metrices", "format_source">>, fmt.exc)
    ELSE Returned(<<"source_manufacturing_metrices", "format_source">>, fmt.ret)

Sourcer_get(content_type, platform, a1, a2, a3) ==
    IF content_type = "News Roundup"
    THEN NewsSourcer_get(platform, a1, a2, a3)
    ELSE ManufacturingMetrices_get(a1, a2)

\* ---------------------------------------------------------------- Job Orchestrator
\* The status _update_status is called with at each of its four call sites.
StatusFor(rec) ==
    CASE rec.step = "proc" -> StatusProcessing
      [] rec.step = "succ" -> StatusComplete
      [] rec.step = "all" -> StatusAllDone
      [] rec.step = "err" -> StatusError(rec.exc)

\* (variant: run() writes its final SUCCESS whether or not
\* run_content_generation raised)
Resume_FinalAlways(rec) ==
    CASE rec.step = "proc" -> [rec EXCEPT !.pc = "cget"]
      [] rec.step \in {"succ", "err"} ->
            IF rec.kind = "run"
            THEN [rec EXCEPT !.pc = "write", !.step = "all"]
            ELSE [rec EXCEPT !.pc = "done",
                             !.outcome = IF rec.step = "err" THEN "raised" ELSE "returned"]
      [] rec.step = "all" -> [rec EXCEPT !.pc = "done", !.outcome = "returned"]

\* Where the caller of _update_status continues once it has returned.
Resume(rec) ==
    CASE rec.step = "proc" -> [rec EXCEPT !.pc = "cget"]
      [] rec.step = "succ" ->
            IF rec.kind = "run"
            THEN [rec EXCEPT !.pc = "write", !.step = "all"]
            ELSE [rec EXCEPT !.pc = "done", !.outcome = "returned"]
      [] rec.step = "all" -> [rec EXCEPT !.pc = "done", !.outcome = "returned"]
      [] rec.step = "err" ->
            [rec EXCEPT !.pc = "done",
                        !.outcome = IF rec.kind = "run" THEN "returned" ELSE "raised"]

\* (variant: the except block re-raises without the ERROR status write)
Fail_NoStatusWrite(rec, e) ==
    [rec EXCEPT !.exc = e, !.pc = "done",
                !.outcome = IF rec.kind = "run" THEN "returned" ELSE "raised"]

\* (variant: the except block runs the failed phase again)
Fail_Retry(rec, e) == [rec EXCEPT !.exc = e, !.pc = "src"]

\* except Exception as e: ... await self._update_status(..., ERROR, ...)
Fail(rec, e) == [rec EXCEPT !.exc = e, !.pc = "write", !.step = "err"]

\* A store operation (find_one, find_one_and_update) fails: the repository
\* raises RepositoryReadException / RepositoryUpdateException.
StoreFails ==
    /\ faults < MaxFaults
    /\ faults' = faults + 1

StoreWorks == UNCHANGED faults

\* The ids a single invocation is triggered for; d2 then only carries the
\* subscriber of another id.
RunTargets == {"d1", MissingId}

InFlight(r) == run[r].pc \notin {"idle", "rejected", "done"}

\* The desk document can still take the stamps of one more run (a run makes
\* at most three status writes).
CanStamp(d) ==
    deskCfg[d].updated_at
        + 3 * (1 + Cardinality({q \in Runs : InFlight(q) /\ run[q].desk = d})) <= MaxStamp

\* (variant: the task is scheduled without the existence check)
Trigger_NoCheck(r, d, k) ==
    /\ ~InFlight(r)
    /\ run' = [run EXCEPT ![r] =
                 [IdleRun EXCEPT !.pc = "load", !.kind = k, !.desk = d, !.resp = 202]]
    /\ UNCHANGED <<polled, deskCfg, deskStatus, content, sse_client_queues, stream, faults>>

\* (variant: a trigger for a desk with a run in flight is turned away)
Trigger_Exclusive(r, d, k) ==
    /\ ~InFlight(r)
    /\ run' = [run EXCEPT ![r] =
                 IF d \in DeskIds /\ \A q \in Runs : ~(InFlight(q) /\ run[q].desk = d)
                 THEN [IdleRun EXCEPT !.pc = "load", !.kind = k, !.desk = d, !.resp = 202]
                 ELSE [IdleRun EXCEPT !.pc = "rejected", !.kind = k, !.desk = d,
                                      !.resp = 404]]
    /\ UNCHANGED <<polled, deskCfg, deskStatus, content, sse_client_queues, stream, faults>>

\* trigger_run_content_generation / trigger_run_generation: get_desk_details
\* (404 for an unknown id, 500 when the read fails), get_api_key_for_user (404
\* when the user has no key), else the invocation is added to the background
\* tasks and 202 returned.  A slot whose invocation has ended is taken again
\* by a later trigger; a desk is triggered while its document can still take
\* the stamps of the run.
Trigger(r, d, k) ==
    /\ ~InFlight(r)
    /\ d \in DeskIds => CanStamp(d)
    /\ LET rejected(code) ==
              [IdleRun EXCEPT !.pc = "rejected", !.kind = k, !.desk = d, !.resp = code]
       IN  IF d \notin DeskIds
           THEN run' = [run EXCEPT ![r] = rejected(404)] /\ StoreWorks
           ELSE \/ /\ StoreWorks
                   /\ run' = [run EXCEPT ![r] =
                                [IdleRun EXCEPT !.pc = "load", !.kind = k, !.desk = d,
                                                !.resp = 202]]
                \/ /\ StoreWorks
                   /\ run' = [run EXCEPT ![r] = rejected(404)]
                \/ /\ StoreFails
                   /\ run' = [run EXCEPT ![r] = rejected(500)]
    /\ UNCHANGED <<polled, deskCfg, deskStatus, content, sse_client_queues, stream>>

\* desk = await self.db.content_desk_repository.get(desk_id)
LoadDesk(r) ==
    /\ run[r].pc = "load"
    /\ \/ /\ StoreWorks
          /\ run' = [run EXCEPT ![r] = [@ EXCEPT !.pc = "write", !.step = "proc"]]
       \/ /\ StoreFails
          /\ run' = [run EXCEPT ![r] = Fail(@, Exc("ReadError", ShortErrLen))]
    /\ UNCHANGED <<polled, deskCfg, deskStatus, content, sse_client_queues, stream>>

\* (variant: a failed store write is raised into the caller of _update_status)
StatusWrite_Raises(r) ==
    /\ run[r].pc = "write"
    /\ LET st == StatusFor(run[r])
           d == run[r].desk
       IN  \/ /\ StoreWorks
              /\ deskStatus' = [deskStatus EXCEPT ![d] = st]
              /\ deskCfg' = [deskCfg EXCEPT ![d].updated_at = @ + 1]
              /\ run' = [run EXCEPT ![r] =
                           [@ EXCEPT !.pc = "publish",
                                     !.writes = Append(@, [status |-> st, ok |-> TRUE,
                                                           at |-> deskCfg[d].updated_at + 1])]]
           \/ /\ StoreFails
              /\ UNCHANGED <<deskStatus, deskCfg>>
              /\ run' = [run EXCEPT ![r] =
                           [@ EXCEPT !.pc = "done", !.outcome = "raised",
                                     !.exc = Exc("UpdateError", ShortErrLen),
                                     !.writes = Append(@, [status |-> st, ok |-> FALSE,
                                                           at |-> deskCfg[d].updated_at])]]
    /\ UNCHANGED <<polled, content, sse_client_queues, stream>>

\* (variant: the status is handed to the hub although the store write failed)
StatusWrite_PublishAnyway(r) ==
    /\ run[r].pc = "write"
    /\ LET st == StatusFor(run[r])
           d == run[r].desk
       IN  \/ /\ StoreWorks
              /\ deskStatus' = [deskStatus EXCEPT ![d] = st]
              /\ deskCfg' = [deskCfg EXCEPT ![d].updated_at = @ + 1]
              /\ run' = [run EXCEPT ![r] =
                           [@ EXCEPT !.pc = "publish",
                                     !.writes = Append(@, [status |-> st, ok |-> TRUE,
                                                           at |-> deskCfg[d].updated_at + 1])]]
           \/ /\ StoreFails
              /\ UNCHANGED <<deskStatus, deskCfg>>
              /\ run' = [run EXCEPT ![r] =
                           [@ EXCEPT !.pc = "publish",
                                     !.writes = Append(@, [status |-> st, ok |-> FALSE,
                                                           at |-> deskCfg[d].updated_at])]]
    /\ UNCHANGED <<polled, content, sse_client_queues, stream>>

\* _update_status, up to the return of content_desk_repository.update, whose
\* $set carries the status and updated_at
StatusWrite(r) ==
    /\ run[r].pc = "write"
    /\ LET st == StatusFor(run[r])
           d == run[r].desk
       IN  \/ /\ StoreWorks
              /\ deskStatus' = [deskStatus EXCEPT ![d] = st]
              /\ deskCfg' = [deskCfg EXCEPT ![d].updated_at = @ + 1]
              /\ run' = [run EXCEPT ![r] =
                           [@ EXCEPT !.pc = "publish",
                                     !.writes = Append(@, [status |-> st, ok |-> TRUE,
                                                           at |-> deskCfg[d].updated_at + 1])]]
           \/ /\ StoreFails
              /\ UNCHANGED <<deskStatus, deskCfg>>
              /\ run' = [run EXCEPT ![r] =
                           Resume([@ EXCEPT !.writes =
                                      Append(@, [status |-> st, ok |-> FALSE,
                                                 at |-> deskCfg[d].updated_at])])]
    /\ UNCHANGED <<polled, content, sse_client_queues, stream>>

\* (variant: the status is put on every registered queue, whatever its id)
StatusPublish_AnyQueue(r) ==
    /\ run[r].pc = "publish"
    /\ stream' = [s \in Streams |->
                    IF \E d \in DeskIds : sse_client_queues[d] = s
                    THEN [stream[s] EXCEPT !.queue = Append(@, StatusFor(run[r]))]
                    ELSE stream[s]]
    /\ run' = [run EXCEPT ![r] = Resume(@)]
    /\ UNCHANGED <<polled, deskCfg, deskStatus, content, sse_client_queues, faults>>

\* (variant: the queue holds one item and put waits until it has been taken)
StatusPublish_Bounded(r) ==
    /\ run[r].pc = "publish"
    /\ LET s == sse_client_queues[run[r].desk]
       IN  /\ s # NoStream => stream[s].queue = <<>>
           /\ stream' = IF s # NoStream
                        THEN [stream EXCEPT ![s].queue = Append(@, StatusFor(run[r]))]
                        ELSE stream
    /\ run' = [run EXCEPT ![r] = Resume(@)]
    /\ UNCHANGED <<polled, deskCfg, deskStatus, content, sse_client_queues, faults>>

\* _update_status, after the store write: queue = sse_client_queues.get(desk_id)
StatusPublish(r) ==
    /\ run[r].pc = "publish"
    /\ LET s == sse_client_queues[run[r].desk]
       IN  stream' = IF s # NoStream
                     THEN [stream EXCEPT ![s].queue = Append(@, StatusFor(run[r]))]
                     ELSE stream
    /\ run' = [run EXCEPT ![r] = Resume(@)]
    /\ UNCHANGED <<polled, deskCfg, deskStatus, content, sse_client_queues, faults>>

\* (variant: an unknown type falls back to a default sourcer)
Dispatch_Default(rec, content_type) == [rec EXCEPT !.pc = "src"]

\* self.sourcers[content_type]: KeyError for a type the table does not hold
Dispatch(rec, content_type) ==
    IF content_type \in Sourcers
    THEN [rec EXCEPT !.pc = "src"]
    ELSE Fail(rec, Exc("KeyError", 6))

\* ContentGenerator.run: content_repository.get (a blank ContentModel when the
\* record is missing or the read fails), then self.sourcers[content_type]
ContentGet(r) ==
    /\ run[r].pc = "cget"
    /\ \/ /\ StoreWorks
          /\ run' = [run EXCEPT ![r] =
                       Dispatch([@ EXCEPT !.data =
                                    IF content[run[r].desk] = NoContent
                                    THEN EmptyContent ELSE content[run[r].desk]],
                                deskCfg[run[r].desk].content_type)]
       \/ /\ StoreFails
          /\ run' = [run EXCEPT ![r] =
                       Dispatch([@ EXCEPT !.data = EmptyContent],
                                deskCfg[run[r].desk].content_type)]
    /\ UNCHANGED <<polled, deskCfg, deskStatus, content, sse_client_queues, stream>>

\* ContentGenerator.run: formatted_content = await sourcer.get(...)
SourcerGet(r) ==
    /\ run[r].pc = "src"
    /\ \E a1, a2, a3 \in AgentOutcomes :
         LET cfg == deskCfg[run[r].desk]
             out == Sourcer_get(cfg.content_type, cfg.platform, a1, a2, a3)
         IN  run' = [run EXCEPT ![r] =
                       IF out.exc # NoExc
                       THEN Fail([@ EXCEPT !.calls = out.calls, !.sourced = TRUE], out.exc)
                       ELSE [@ EXCEPT !.calls = out.calls, !.sourced = TRUE,
                                      !.formatted = out.ret, !.pc = "cupd"]]
    /\ UNCHANGED <<polled, deskCfg, deskStatus, content, sse_client_queues, stream, faults>>

\* (variant: the record read at the start is written back without the new
\* result)
ContentUpdate_StaleResult(r) ==
    /\ run[r].pc = "cupd"
    /\ StoreWorks
    /\ content' = [content EXCEPT ![run[r].desk] = run[r].data]
    /\ run' = [run EXCEPT ![r] = [@ EXCEPT !.pc = "write", !.step = "succ"]]
    /\ UNCHANGED <<polled, deskCfg, deskStatus, sse_client_queues, stream>>

\* ContentGenerator.run: content_data.result = formatted_content; update(...)
\* The repository parses the updated document back into a ContentModel after
\* the store has applied the write; for a result that is not text that parse
\* may be rejected.
ContentUpdate(r) ==
    /\ run[r].pc = "cupd"
    /\ \/ /\ StoreFails
          /\ run' = [run EXCEPT ![r] = Fail(@, Exc("UpdateError", ShortErrLen))]
          /\ UNCHANGED content
       \/ /\ StoreWorks
          /\ content[run[r].desk] = NoContent
          /\ run' = [run EXCEPT ![r] = Fail(@, Exc("NotFound", ShortErrLen))]
          /\ UNCHANGED content
       \/ /\ StoreWorks
          /\ content[run[r].desk] # NoContent
          /\ content' = [content EXCEPT ![run[r].desk] =
                           [feedback |-> run[r].data.feedback,
                            result |-> run[r].formatted]]
          /\ \/ run' = [run EXCEPT ![r] = [@ EXCEPT !.pc = "write", !.step = "succ"]]
             \/ /\ run[r].formatted \in NonText
                /\ run' = [run EXCEPT ![r] = Fail(@, Exc("UpdateError", ShortErrLen))]
    /\ UNCHANGED <<polled, deskCfg, deskStatus, sse_client_queues, stream>>

\* PATCH /desk/{desk_id}/content with a feedback
UpdateContent(d, f) ==
    /\ content[d] # NoContent
    /\ content[d].feedback # f
    /\ content' = [content EXCEPT ![d].feedback = f]
    /\ UNCHANGED <<polled, deskCfg, deskStatus, sse_client_queues, run, stream, faults>>

\* ---------------------------------------------------------------- status endpoint
\* What GET /desk/{id}/status answers: the response code, the GenerationStatus
\* of the desk document that was read and that document's updated_at.
Answer(d, resp, st, at) == [desk |-> d, resp |-> resp, status |-> st, at |-> at]

NoStatus == GenerationStatus("none", "none", Message("", "", 0))

LastTwo(seq) == IF Len(seq) <= 2 THEN seq ELSE Tail(seq)

\* (variant: reading the status resets the stored one to its initial value)
GetStatus_ReadAndReset(d) ==
    /\ d \in DeskIds
    /\ StoreWorks
    /\ polled' = LastTwo(Append(polled,
                     Answer(d, 200, deskStatus[d], deskCfg[d].updated_at)))
    /\ deskStatus' = [deskStatus EXCEPT ![d] = DeskCreated]
    /\ UNCHANGED <<deskCfg, content, sse_client_queues, run, stream>>

\* get_content_desk_status: get_desk_details, then ContentDesk.get_status,
\* which returns desk.status of the document it reads; 404 for an unknown id,
\* 500 when a read fails.
GetStatus(d) ==
    /\ IF d \notin DeskIds
       THEN /\ StoreWorks
            /\ polled' = LastTwo(Append(polled, Answer(d, 404, NoStatus, 0)))
       ELSE \/ /\ StoreWorks
               /\ polled' = LastTwo(Append(polled,
                                Answer(d, 200, deskStatus[d], deskCfg[d].updated_at)))
            \/ /\ StoreFails
               /\ polled' = LastTwo(Append(polled, Answer(d, 500, NoStatus, 0)))
    /\ UNCHANGED <<deskCfg, deskStatus, content, sse_client_queues, run, stream>>

\* ---------------------------------------------------------------- SSE stream
StatusEvent(st) == [event |-> "status_update", data |-> st]
ErrorEvent(name) ==
    [event |-> "error",
     data |-> GenerationStatus("none", name, Message("", "", 0))]

\* (variant: the busy return runs the finally clause, which pops the entry)
Connect_BusyPops(s, d) ==
    /\ stream[s].pc = "idle"
    /\ \A q \in Streams : q < s => stream[q].pc # "idle"
    /\ IF sse_client_queues[d] # NoStream
       THEN /\ stream' = [stream EXCEPT ![s] =
                            [@ EXCEPT !.pc = "closed", !.desk = d,
                                      !.events = Append(@, ErrorEvent("Resource Busy"))]]
            /\ sse_client_queues' = [sse_client_queues EXCEPT ![d] = NoStream]
       ELSE /\ stream' = [stream EXCEPT ![s] = [@ EXCEPT !.pc = "snapshot", !.desk = d]]
            /\ sse_client_queues' = [sse_client_queues EXCEPT ![d] = s]
    /\ UNCHANGED <<polled, deskCfg, deskStatus, content, run, faults>>

\* (variant: no busy check, the new queue replaces the registered one)
Connect_Replace(s, d) ==
    /\ stream[s].pc = "idle"
    /\ \A q \in Streams : q < s => stream[q].pc # "idle"
    /\ stream' = [stream EXCEPT ![s] = [@ EXCEPT !.pc = "snapshot", !.desk = d]]
    /\ sse_client_queues' = [sse_client_queues EXCEPT ![d] = s]
    /\ UNCHANGED <<polled, deskCfg, deskStatus, content, run, faults>>

\* GET /sse/{desk_id}/stream for an existing desk, up to the first suspension
\* of event_generator: queue = asyncio.Queue(); if desk_id in sse_client_queues:
\* yield the error event and return; else sse_client_queues[desk_id] = queue.
\* Connections are numbered in the order they arrive.
Connect(s, d) ==
    /\ stream[s].pc = "idle"
    /\ \A q \in Streams : q < s => stream[q].pc # "idle"
    /\ IF sse_client_queues[d] # NoStream
       THEN /\ stream' = [stream EXCEPT ![s] =
                            [@ EXCEPT !.pc = "closed", !.desk = d,
                                      !.events = Append(@, ErrorEvent("Resource Busy"))]]
            /\ UNCHANGED sse_client_queues
       ELSE /\ stream' = [stream EXCEPT ![s] = [@ EXCEPT !.pc = "snapshot", !.desk = d]]
            /\ sse_client_queues' = [sse_client_queues EXCEPT ![d] = s]
    /\ UNCHANGED <<polled, deskCfg, deskStatus, content, run, faults>>

\* current_status = await content_desk_service.get_status(desk_id); yield it,
\* or yield InitialStatusError and keep listening
Snapshot(s) ==
    /\ stream[s].pc = "snapshot"
    /\ \/ /\ StoreWorks
          /\ stream' = [stream EXCEPT ![s] =
                          [@ EXCEPT !.pc = "listen",
                                    !.events = Append(@, StatusEvent(deskStatus[stream[s].desk]))]]
       \/ /\ StoreFails
          /\ stream' = [stream EXCEPT ![s] =
                          [@ EXCEPT !.pc = "listen",
                                    !.events = Append(@, ErrorEvent("InitialStatusError"))]]
    /\ UNCHANGED <<polled, deskCfg, deskStatus, content, sse_client_queues, run>>

\* (variant: the head of the queue is yielded but not taken off the queue)
Deliver_Peek(s) ==
    /\ stream[s].pc = "listen"
    /\ stream[s].queue # <<>>
    /\ Len(stream[s].events) < 5
    /\ stream' = [stream EXCEPT ![s] =
                    [@ EXCEPT !.events = Append(@, StatusEvent(Head(stream[s].queue)))]]
    /\ UNCHANGED <<polled, deskCfg, deskStatus, content, sse_client_queues, run, faults>>

\* new_status_json = await asyncio.wait_for(queue.get(), ...); yield it
Deliver(s) ==
    /\ stream[s].pc = "listen"
    /\ stream[s].queue # <<>>
    /\ stream' = [stream EXCEPT ![s] =
                    [@ EXCEPT !.queue = Tail(@),
                              !.events = Append(@, StatusEvent(Head(stream[s].queue)))]]
    /\ UNCHANGED <<polled, deskCfg, deskStatus, content, sse_client_queues, run, faults>>

\* (variant: the finally clause leaves the registry as it is)
Unregister_Keep(registry, d) == registry

\* finally: sse_client_queues.pop(desk_id, None)
Unregister(registry, d) == [registry EXCEPT ![d] = NoStream]

\* if await request.is_disconnected(): break
Disconnect(s) ==
    /\ stream[s].pc = "listen"
    /\ stream' = [stream EXCEPT ![s] = [@ EXCEPT !.pc = "closed"]]
    /\ sse_client_queues' = Unregister(sse_client_queues, stream[s].desk)
    /\ UNCHANGED <<polled, deskCfg, deskStatus, content, run, faults>>

\* except Exception as q_err: yield the QueueError event; break
QueueError(s) ==
    /\ stream[s].pc = "listen"
    /\ stream' = [stream EXCEPT ![s] =
                    [@ EXCEPT !.pc = "closed",
                              !.events = Append(@, ErrorEvent("QueueError"))]]
    /\ sse_client_queues' = Unregister(sse_client_queues, stream[s].desk)
    /\ UNCHANGED <<polled, deskCfg, deskStatus, content, run, faults>>

\* The generator is closed or its task cancelled while suspended inside the
\* try block: only the finally clause runs.
Cancel(s) ==
    /\ stream[s].pc \in {"snapshot", "listen"}
    /\ stream' = [stream EXCEPT ![s] = [@ EXCEPT !.pc = "closed"]]
    /\ sse_client_queues' = Unregister(sse_client_queues, stream[s].desk)
    /\ UNCHANGED <<polled, deskCfg, deskStatus, content, run, faults>>

\* ---------------------------------------------------------------- specifications
Kinds == {"run", "run_content_generation"}

\* One invocation at a time: a trigger arrives only when no run is in flight.
Quiet == \A q \in Runs : ~InFlight(q)

Next ==
    \/ \E d \in RunTargets, k \in Kinds : Trigger(1, d, k) /\ Quiet
    \/ \E r \in Runs : LoadDesk(r)
    \/ \E r \in Runs : StatusWrite(r)
    \/ \E r \in Runs : StatusPublish(r)
    \/ \E r \in Runs : ContentGet(r)
    \/ \E r \in Runs : SourcerGet(r)
    \/ \E r \in Runs : ContentUpdate(r)
    \/ \E f \in Feedbacks : UpdateContent("d1", f)

Spec == Init /\ [][Next]_vars

\* Overlapping invocations of run_content_generation: the triggers of one desk
\* arrive at any time, whatever the other runs of the desk are doing.  The
\* first half of the slots is triggered for d1; the others for d2, once the
\* runs of d1 have ended.  The store takes no failure in these runs.
OverlapDesk(r) == IF r <= MaxRuns \div 2 THEN "d1" ELSE "d2"

Ended(r) == run[r].pc \in {"rejected", "done"}

NextOverlap ==
    \/ \E r \in Runs :
          /\ run[r].pc = "idle"
          /\ OverlapDesk(r) = "d2" => \A q \in Runs : OverlapDesk(q) = "d1" => Ended(q)
          /\ Trigger(r, OverlapDesk(r), "run_content_generation") /\ StoreWorks
    \/ \E r \in Runs : LoadDesk(r) /\ StoreWorks
    \/ \E r \in Runs : StatusWrite(r) /\ StoreWorks
    \/ \E r \in Runs : StatusPublish(r)
    \/ \E r \in Runs : ContentGet(r) /\ StoreWorks
    \/ \E r \in Runs : SourcerGet(r) /\ run'[r].formatted \in {"", "X"}
                                       /\ run'[r].exc.len # LongErrLen
    \/ \E r \in Runs : ContentUpdate(r) /\ StoreWorks

InitOverlap ==
    /\ Init
    /\ deskCfg["d1"] = DeskDoc("Manufacturing Metrices", "LinkedIn")
    /\ content["d1"] = EmptyContent

SpecOverlap == InitOverlap /\ [][NextOverlap]_vars

\* Invocations of both kinds on desk d1, each triggered while the earlier ones
\* may still be going on; the store works.
NextMixed ==
    \/ \E r \in Runs, k \in Kinds :
          /\ run[r].pc = "idle"
          /\ \A q \in 1..(r - 1) : run[q].pc # "idle"
          /\ Trigger(r, "d1", k) /\ StoreWorks
    \/ \E r \in Runs : LoadDesk(r) /\ StoreWorks
    \/ \E r \in Runs : StatusWrite(r) /\ StoreWorks
    \/ \E r \in Runs : StatusPublish(r)
    \/ \E r \in Runs : ContentGet(r) /\ StoreWorks
    \/ \E r \in Runs : SourcerGet(r) /\ run'[r].formatted \in {"", "X"}
                                       /\ run'[r].exc.len # LongErrLen
    \/ \E r \in Runs : ContentUpdate(r) /\ StoreWorks

SpecMixed == InitOverlap /\ [][NextMixed]_vars

\* The subscribers are fed by one full run of desk d1.
Fresh == \A q \in Runs : run[q].pc = "idle"

\* The agent answers the hub is fed with: one text, short errors.
HubInputs(r) ==
    /\ run'[r].formatted \notin {"Y", NoneValue}
    /\ run'[r].exc.len # LongErrLen

NextHub ==
    \/ Trigger(1, "d1", "run") /\ Fresh
    \/ \E r \in Runs : LoadDesk(r)
    \/ \E r \in Runs : StatusWrite(r)
    \/ \E r \in Runs : StatusPublish(r)
    \/ \E r \in Runs : ContentGet(r)
    \/ \E r \in Runs : SourcerGet(r) /\ HubInputs(r)
    \/ \E r \in Runs : ContentUpdate(r)
    \/ \E s \in Streams, d \in DeskIds : Connect(s, d)
    \/ \E s \in Streams : Snapshot(s)
    \/ \E s \in Streams : Deliver(s)
    \/ \E s \in Streams : Disconnect(s)
    \/ \E s \in Streams : QueueError(s)
    \/ \E s \in Streams : Cancel(s)

\* The status of desk d1 is polled while one run() of it goes on.
NextPoll ==
    \/ Trigger(1, "d1", "run") /\ Fresh
    \/ \E r \in Runs : LoadDesk(r)
    \/ \E r \in Runs : StatusWrite(r)
    \/ \E r \in Runs : StatusPublish(r)
    \/ \E r \in Runs : ContentGet(r)
    \/ \E r \in Runs : SourcerGet(r) /\ HubInputs(r)
    \/ \E r \in Runs : ContentUpdate(r)
    \/ \E d \in RunTargets : GetStatus(d)

InitHub ==
    /\ Init
    /\ deskCfg["d1"] = DeskDoc("Manufacturing Metrices", "LinkedIn")
    /\ content["d1"] = EmptyContent

SpecHub == InitHub /\ [][NextHub]_vars

SpecPoll == InitHub /\ [][NextPoll]_vars

\* The steps of invocation r.  The event loop resumes a coroutine whose await
\* has completed, and the store and agent calls return; nothing makes a
\* subscriber read its queue.
RunStep(r) ==
    \/ LoadDesk(r)
    \/ StatusWrite(r)
    \/ StatusPublish(r)
    \/ ContentGet(r)
    \/ SourcerGet(r) /\ HubInputs(r)
    \/ ContentUpdate(r)

\* One run() of desk d1 with subscribers of that desk coming, reading and going.
NextFair ==
    \/ Trigger(1, "d1", "run") /\ Fresh
    \/ \E r \in Runs : RunStep(r)
    \/ \E s \in Streams : Connect(s, "d1")
    \/ \E s \in Streams : Snapshot(s)
    \/ \E s \in Streams : Deliver(s)
    \/ \E s \in Streams : Disconnect(s)

SpecHubFair == InitHub /\ [][NextFair]_vars /\ \A r \in Runs : WF_vars(RunStep(r))

\* ---------------------------------------------------------------- properties
Last(seq) == seq[Len(seq)]

Terminal(st) == st.phase = "content" /\ st.status_text \in {"success", "error"}

\* run_content_generation has completed inside invocation r: it was triggered
\* directly and has ended, or run() is past its call of it.
RcgCompleted(r) ==
    \/ run[r].pc = "done" /\ (run[r].kind = "run_content_generation" \/ run[r].exc # NoExc)
    \/ run[r].kind = "run" /\ run[r].step = "all" /\ run[r].pc = "write"

\* C1 as stated: once a run_content_generation invocation has completed, the
\* stored status of its desk has phase CONTENT and status_text SUCCESS or ERROR.
C1_AlwaysTerminal ==
    \A r \in Runs : RcgCompleted(r) => Terminal(deskStatus[run[r].desk])

\* C1 amended: once a run_content_generation invocation has completed it has
\* attempted a status write, and if its last status write was persisted the
\* stored status of its desk is that status, with phase CONTENT and
\* status_text SUCCESS or ERROR.
C1_TerminalWhenPersisted ==
    \A r \in Runs :
        RcgCompleted(r) =>
            /\ run[r].writes # <<>>
            /\ Terminal(Last(run[r].writes).status)
            /\ Last(run[r].writes).ok => deskStatus[run[r].desk] = Last(run[r].writes).status

\* A directly triggered run_content_generation has raised after both its
\* PROCESSING and its ERROR write were persisted.
C1_Witness ==
    \E r \in Runs :
        /\ run[r].pc = "done" /\ run[r].kind = "run_content_generation"
        /\ run[r].outcome = "raised"
        /\ Len(run[r].writes) = 2
        /\ \A i \in 1..2 : run[r].writes[i].ok
        /\ deskStatus[run[r].desk].status_text = "error"

\* ---- C2
Registered(s) == stream[s].pc \in {"snapshot", "listen"}

BusyEvents == <<ErrorEvent("Resource Busy")>>

\* A connection arrives for a desk that has a queue registered.
ArrivesBusy(s) ==
    /\ stream[s].pc = "idle"
    /\ stream'[s].pc # "idle"
    /\ sse_client_queues[stream'[s].desk] # NoStream

C2_Step ==
    /\ \A d \in DeskIds :
          sse_client_queues[d] # NoStream =>
              sse_client_queues'[d] \in {sse_client_queues[d], NoStream}
    /\ \A s \in Streams :
          ArrivesBusy(s) =>
              /\ sse_client_queues' = sse_client_queues
              /\ stream'[s].pc = "closed"
              /\ stream'[s].events = BusyEvents
              /\ \A t \in Streams \ {s} : stream'[t] = stream[t]

C2_State ==
    \A s \in Streams :
        /\ Registered(s) => sse_client_queues[stream[s].desk] = s
        /\ \A d \in DeskIds : sse_client_queues[d] = s =>
                                  Registered(s) /\ stream[s].desk = d
        /\ stream[s].pc = "closed" /\ stream[s].events # <<>>
              /\ stream[s].events[1] = BusyEvents[1] => stream[s].events = BusyEvents

\* C2: every desk id has at most one registered queue, that of the one live
\* generator which registered it; a connection arriving while a queue is
\* registered is not registered, is given exactly one "Resource Busy" error
\* event and closes, and a registered queue is only ever removed, never
\* replaced.
C2_SingleSubscriber == [](C2_State) /\ [][C2_Step]_vars

\* A connection was turned away as busy while the first one is still listening.
C2_Witness ==
    \E s, t \in Streams :
        /\ s # t
        /\ stream[s].pc = "listen" /\ stream[t].pc = "closed"
        /\ stream[s].desk = stream[t].desk
        /\ sse_client_queues[stream[s].desk] = s
        /\ stream[t].events = BusyEvents

\* ---- C3
SourcerErrors == {"AgentError", "UnsupportedPlatform"}

SourcerRaised(r) == run[r].sourced /\ run[r].exc.kind \in SourcerErrors

\* C3 as stated: once run_content_generation has completed after the sourcing
\* strategy raised, the stored status is the ERROR status of that failure.
C3_StoredError ==
    \A r \in Runs :
        RcgCompleted(r) /\ SourcerRaised(r) =>
            deskStatus[run[r].desk] = StatusError(run[r].exc)

C3_State ==
    \A r \in Runs :
        SourcerRaised(r) =>
            /\ run[r].pc \in {"write", "publish", "done"}
            /\ run[r].pc = "done" =>
                  /\ run[r].kind = "run_content_generation" => run[r].outcome = "raised"
                  /\ run[r].writes # <<>>
                  /\ Last(run[r].writes).status.phase = "content"
                  /\ Last(run[r].writes).status.status_text = "error"
                  /\ Last(run[r].writes).status.message.reason = run[r].exc.kind
                  /\ Last(run[r].writes).status.message.len =
                        MsgFailedPrefixLen + Min(run[r].exc.len, ErrorTruncation)
                  /\ Last(run[r].writes).ok =>
                        deskStatus[run[r].desk] = Last(run[r].writes).status

C3_Step ==
    \A r \in Runs :
        /\ run'[r] # run[r]
        /\ run[r].pc # "cupd" \/ SourcerRaised(r)
        => content' = content

\* C3 amended: when the sourcing strategy raises, run_content_generation
\* attempts the write of {CONTENT, ERROR, message carrying the failure reason}
\* before it raises to its caller, the stored status is that status if the
\* store persisted the write, and no step of the run changes the Content
\* record.
C3_SourcerFailure == [](C3_State) /\ [][C3_Step]_vars

\* A directly triggered run whose sourcer raised has ended with its ERROR
\* status stored and the Content record still empty.
C3_Witness ==
    \E r \in Runs :
        /\ run[r].pc = "done" /\ run[r].kind = "run_content_generation"
        /\ SourcerRaised(r) /\ run[r].exc.kind = "AgentError"
        /\ run[r].outcome = "raised"
        /\ deskStatus[run[r].desk] = StatusError(run[r].exc)
        /\ content[run[r].desk] = EmptyContent

\* ---- C4
Statuses(r) == [i \in 1..Len(run[r].writes) |-> run[r].writes[i].status]

\* run() has ended and its pipeline returned a text.
RunReturnedText(r) ==
    /\ run[r].pc = "done" /\ run[r].kind = "run"
    /\ run[r].exc = NoExc /\ run[r].formatted \in Texts

\* C4 as stated: after run(D) whose pipeline returned text X the stored status
\* is the all-steps-complete SUCCESS, the Content result is X and the status
\* writes were PROCESSING, SUCCESS, SUCCESS.
C4_FinalStored ==
    \A r \in Runs :
        RunReturnedText(r) =>
            /\ deskStatus[run[r].desk] = StatusAllDone
            /\ content[run[r].desk].result = run[r].formatted
            /\ Statuses(r) = <<StatusProcessing, StatusComplete, StatusAllDone>>

\* C4 amended: after run(D) whose pipeline returned text X the Content result
\* is X, the status writes of the run were attempted in the order PROCESSING,
\* SUCCESS (phase complete), SUCCESS (all steps complete), and the stored
\* status is the all-steps-complete SUCCESS if the store persisted that last
\* write.
C4_HappyPath ==
    \A r \in Runs :
        RunReturnedText(r) =>
            /\ content[run[r].desk].result = run[r].formatted
            /\ Statuses(r) = <<StatusProcessing, StatusComplete, StatusAllDone>>
            /\ run[r].writes[3].ok => deskStatus[run[r].desk] = StatusAllDone

\* run() has ended with text "X" stored and all three writes persisted.
C4_Witness ==
    \E r \in Runs :
        /\ RunReturnedText(r) /\ run[r].formatted = "X"
        /\ \A i \in 1..3 : run[r].writes[i].ok
        /\ deskStatus[run[r].desk] = StatusAllDone
        /\ content[run[r].desk].result = "X"

\* ---- C5
NoSuccessWritten(r) ==
    \A i \in 1..Len(run[r].writes) : run[r].writes[i].status.status_text # "success"

UnsupportedNews(d) ==
    /\ deskCfg[d].content_type = "News Roundup"
    /\ deskCfg[d].platform \notin {"LinkedIn", "Twitter"}

\* C5: a run of a News Roundup desk whose platform is neither LinkedIn nor
\* Twitter, with every agent call returning, ends with the pipeline failing
\* with the unsupported-platform error and writes no SUCCESS status.
C5_UnsupportedPlatform ==
    \A r \in Runs :
        /\ run[r].pc = "done" /\ run[r].desk \in DeskIds
        /\ UnsupportedNews(run[r].desk)
        /\ run[r].sourced /\ run[r].exc.kind # "AgentError"
        => /\ run[r].exc.kind = "UnsupportedPlatform"
           /\ NoSuccessWritten(r)

\* ---- C6
\* C6: a run of a desk whose content_type is not in the dispatch table makes
\* no sourcer.get and no agent call at any point, and when its
\* run_content_generation has completed the last status it wrote is an ERROR
\* status, which is the stored one if the store persisted it.
C6_UnknownContentType ==
    \A r \in Runs :
        run[r].desk \in DeskIds /\ deskCfg[run[r].desk].content_type \notin Sourcers =>
            /\ run[r].calls = <<>>
            /\ ~run[r].sourced
            /\ run[r].pc \notin {"src", "cupd"}
            /\ RcgCompleted(r) =>
                  /\ run[r].writes # <<>>
                  /\ Last(run[r].writes).status.status_text = "error"
                  /\ Last(run[r].writes).ok =>
                        deskStatus[run[r].desk] = Last(run[r].writes).status

\* A run of a desk of unknown content type has ended on the KeyError with its
\* ERROR status stored.
C6_Witness ==
    \E r \in Runs :
        /\ run[r].pc = "done" /\ run[r].desk \in DeskIds
        /\ deskCfg[run[r].desk].content_type \notin Sourcers
        /\ run[r].exc.kind = "KeyError"
        /\ deskStatus[run[r].desk] = StatusError(run[r].exc)
        /\ run[r].calls = <<>>

\* ---- C7
\* The topic-selection or the news-gathering step of run r returned nothing.
EmptyIntermediate(r) == run[r].formatted \in {ErrorDictTopic, ErrorDictNews}

\* C7: when the topic-selection or news-gathering step returns an empty
\* result the run ends with an error, no SUCCESS status is written and nothing
\* is written to the Content result.
C7_EmptyFailsFast ==
    \A r \in Runs :
        run[r].pc = "done" /\ EmptyIntermediate(r) =>
            /\ run[r].exc # NoExc
            /\ NoSuccessWritten(r)
            /\ content[run[r].desk].result \notin {ErrorDictTopic, ErrorDictNews}

\* ---- C8
\* C8: run() never raises to its caller; it attempts its final SUCCESS write
\* only when run_content_generation returned, and after a failed
\* run_content_generation the last status it wrote is that failure's ERROR.
C8_RunSwallows ==
    \A r \in Runs :
        run[r].kind = "run" =>
            /\ run[r].outcome # "raised"
            /\ (\E i \in 1..Len(run[r].writes) : run[r].writes[i].status = StatusAllDone)
                  => run[r].exc = NoExc
            /\ run[r].pc = "done" /\ run[r].exc # NoExc =>
                  /\ run[r].outcome = "returned"
                  /\ Last(run[r].writes).status = StatusError(run[r].exc)
                  /\ Last(run[r].writes).ok =>
                        deskStatus[run[r].desk] = StatusError(run[r].exc)

\* run() has returned after its run_content_generation failed, the ERROR
\* status still stored.
C8_Witness ==
    \E r \in Runs :
        /\ run[r].kind = "run" /\ run[r].pc = "done"
        /\ run[r].exc # NoExc /\ run[r].outcome = "returned"
        /\ deskStatus[run[r].desk] = StatusError(run[r].exc)

\* ---- C9
\* What the queue of s has been given since it was registered: the updates
\* already yielded (the events after the initial one) and those still queued.
Taken(s) ==
    (IF stream[s].pc = "snapshot" THEN <<>>
     ELSE [i \in 1..(Len(stream[s].events) - 1) |-> stream[s].events[i + 1].data])
        \o stream[s].queue

TakenNext(s) ==
    (IF stream'[s].pc = "snapshot" THEN <<>>
     ELSE [i \in 1..(Len(stream'[s].events) - 1) |-> stream'[s].events[i + 1].data])
        \o stream'[s].queue

\* Run r publishes in this step (its _update_status gets past the store write).
Publishes(r) == run[r].pc = "publish" /\ run'[r].pc # "publish"

C9_Step ==
    \A s \in Streams :
        Registered(s) /\ stream'[s].pc = "listen" =>
            IF \E r \in Runs : Publishes(r) /\ run[r].desk = stream[s].desk
            THEN \E r \in Runs :
                    /\ Publishes(r) /\ run[r].desk = stream[s].desk
                    /\ TakenNext(s) = Append(Taken(s), Last(run[r].writes).status)
                    /\ Last(run[r].writes).ok
            ELSE TakenNext(s) = Taken(s)

C9_State ==
    \A s \in Streams :
        stream[s].pc = "listen" =>
            \A i \in 2..Len(stream[s].events) :
                stream[s].events[i].event = "status_update"

\* C9: while a queue is registered for a desk, every status the producer
\* publishes for that desk is appended to it once, and the consumer is
\* yielded the queued statuses one by one from the head: what has been
\* yielded followed by what is still queued is always exactly the sequence of
\* statuses published since registration, in publication order.
C9_ExactlyOnceInOrder == [](C9_State) /\ [][C9_Step]_vars

\* A subscriber that registered before the run started has been yielded the
\* three statuses of a successful run() after its snapshot.
C9_Witness ==
    \E s \in Streams :
        /\ stream[s].pc = "listen" /\ stream[s].queue = <<>>
        /\ Len(stream[s].events) = 4
        /\ Taken(s) = <<StatusProcessing, StatusComplete, StatusAllDone>>

\* ---- C10
\* Run r takes a step of _update_status while no queue is registered for its
\* desk.
UpdatesUnsubscribed(r) ==
    /\ run[r].pc \in {"write", "publish"}
    /\ run'[r] # run[r]
    /\ sse_client_queues[run[r].desk] = NoStream

C10_Step ==
    \A r \in Runs :
        UpdatesUnsubscribed(r) =>
            /\ sse_client_queues' = sse_client_queues
            /\ stream' = stream
            /\ run'[r].exc = run[r].exc
            /\ run'[r].outcome # "raised" \/ run[r].step = "err"

\* C10: a status update for a desk with no registered queue leaves the hub as
\* it was (registry and every queue unchanged) and raises nothing into the
\* run.
C10_SilentNoop == [][C10_Step]_vars

\* A full run of d1 has ended with three persisted writes while the only
\* subscribers were on d2, whose live queue is still empty.
C10_Witness ==
    /\ run[1].pc = "done" /\ Len(run[1].writes) = 3
    /\ \A i \in 1..3 : run[1].writes[i].ok
    /\ \A s \in Streams : stream[s].desk # "d1"
    /\ \E s \in Streams :
          /\ stream[s].pc = "listen" /\ stream[s].desk = "d2"
          /\ stream[s].queue = <<>> /\ Len(stream[s].events) = 1

\* ---- C11
\* Stream s yields its first event after registration.
TakesSnapshot(s) == stream[s].pc = "snapshot" /\ stream'[s].pc = "listen"

C11_Step ==
    \A s \in Streams :
        TakesSnapshot(s) =>
            stream'[s].events = <<StatusEvent(deskStatus[stream[s].desk])>>

C11_State ==
    \A s \in Streams :
        stream[s].pc = "listen" =>
            /\ stream[s].events # <<>>
            /\ \A i \in 1..Len(stream[s].events) :
                  stream[s].events[i].event = "status_update"

\* C11: a stream that registered emits first exactly one status_update event
\* carrying the stored status, and while it stays open everything it has
\* emitted is a status_update; an error event is emitted only when the stream
\* closes.
C11_SnapshotThenForward == [](C11_State) /\ [][C11_Step]_vars

\* ---- C12
\* Stream s, which had registered its queue, terminates in this step.
Terminates(s) == Registered(s) /\ stream'[s].pc = "closed"

C12_Step ==
    \A s \in Streams :
        /\ Terminates(s) =>
              /\ sse_client_queues'[stream[s].desk] = NoStream
              /\ \A d \in DeskIds \ {stream[s].desk} :
                    sse_client_queues'[d] = sse_client_queues[d]
        /\ stream[s].pc = "idle" /\ stream'[s].pc # "idle"
              /\ sse_client_queues[stream'[s].desk] = NoStream
              => stream'[s].pc = "snapshot" /\ sse_client_queues'[stream'[s].desk] = s

C12_State ==
    /\ \A s \in Streams :
          stream[s].pc = "closed" => \A d \in DeskIds : sse_client_queues[d] # s
    /\ \A d \in DeskIds :
          /\ Unregister(sse_client_queues, d)[d] = NoStream
          /\ Unregister(Unregister(sse_client_queues, d), d)
                = Unregister(sse_client_queues, d)
          /\ sse_client_queues[d] = NoStream
                => Unregister(sse_client_queues, d) = sse_client_queues

\* C12: when a stream that registered a queue for a desk terminates (client
\* disconnect, queue error, generator closed or cancelled) the registration
\* of that desk is removed and no other one is touched, so a closed stream is
\* never in the registry and a later connection for the desk registers;
\* removing a registration that is absent changes nothing.
C12_UnregisterOnExit == [](C12_State) /\ [][C12_Step]_vars

\* A second connection is listening on the desk whose first subscriber
\* registered, took its snapshot and terminated.
C12_Witness ==
    \E s, t \in Streams :
        /\ s # t /\ stream[s].desk = stream[t].desk
        /\ stream[s].pc = "closed" /\ stream[s].events # <<>>
        /\ stream[s].events[1].event = "status_update"
        /\ stream[t].pc = "listen"
        /\ sse_client_queues[stream[t].desk] = t

\* ---- C13
\* Some status write of run r reports a record that was not found.
WroteNotFound(r) ==
    \E i \in 1..Len(run[r].writes) :
        /\ run[r].writes[i].status.status_text = "error"
        /\ run[r].writes[i].status.message.reason = "NotFound"

\* C13: a trigger for a missing desk, or for a desk whose referenced Content
\* record is missing, is rejected before any background work is scheduled,
\* and no run writes an ERROR status on account of a missing record.
C13_RejectedAtTrigger ==
    \A r \in Runs :
        /\ run[r].pc # "idle" /\ run[r].desk \notin DeskIds => run[r].pc = "rejected"
        /\ run[r].desk \in DeskIds /\ content[run[r].desk] = NoContent
              => run[r].pc = "rejected"
        /\ ~WroteNotFound(r)

\* ---- C14
\* A trigger request for slot r is answered in this step.
Answered(r) == ~InFlight(r) /\ run'[r] # run[r]

C14_Step ==
    \A r \in Runs :
        Answered(r) =>
            /\ run'[r].resp \in {202, 404, 500}
            /\ run'[r].resp = 202 =>
                  /\ run'[r].desk \in DeskIds
                  /\ run'[r].pc = "load"
            /\ run'[r].desk \notin DeskIds => run'[r].resp = 404
            /\ run'[r].resp # 202 => run'[r].pc = "rejected"
            /\ run'[r].writes = <<>> /\ run'[r].calls = <<>>
            /\ deskStatus' = deskStatus /\ deskCfg' = deskCfg
            /\ content' = content /\ stream' = stream

C14_State ==
    \A r \in Runs :
        /\ run[r].pc = "rejected" =>
              /\ run[r].resp \in {404, 500}
              /\ run[r].writes = <<>> /\ run[r].calls = <<>>
        /\ run[r].pc \notin {"idle", "rejected"} => run[r].resp = 202

InUpdateStatus(r) == run[r].pc \in {"write", "publish"} /\ run'[r] # run[r]

\* C15: a status write of the orchestrator changes only the status of the
\* desk document: content_type, platform, created_at and updated_at are the
\* same after the write as before it.
C15_OnlyStatusChanges ==
    [][\A r \in Runs : InUpdateStatus(r) => deskCfg' = deskCfg]_vars

\* ---- C16
StatusKind(st) == <<st.phase, st.status_text>>

StatusKinds ==
    {<<"not_running", "success">>, <<"content", "processing">>,
     <<"content", "success">>, <<"content", "error">>}

\* Run r persists a status in this step.
Persists(r) == run[r].pc = "write" /\ run'[r].pc = "publish"

C16_State ==
    /\ \A d \in DeskIds :
          /\ StatusKind(deskStatus[d]) \in StatusKinds
          /\ deskStatus[d].phase = "not_running" => deskCfg[d].updated_at = CreatedAt
    /\ \A r \in Runs : \A i \in 1..Len(run[r].writes) :
          run[r].writes[i].status.phase = "content"

C16_Step ==
    \A r \in Runs :
        Persists(r) =>
            LET old == deskStatus[run[r].desk]
                new == deskStatus'[run[r].desk]
            IN  \/ new.status_text = "processing"
                \/ StatusKind(old) = <<"content", "processing">>
                \/ StatusKind(old) = StatusKind(new)

\* C16: a stored status is always NOT_RUNNING/SUCCESS (only while no status
\* write has been persisted for the desk), CONTENT/PROCESSING, CONTENT/SUCCESS
\* or CONTENT/ERROR; every status the orchestrator writes has phase CONTENT;
\* and a persisted write either stores PROCESSING or turns a stored
\* CONTENT/PROCESSING into SUCCESS or ERROR (or leaves phase and status_text
\* as they are).
C16_StatusMachine == [](C16_State) /\ [][C16_Step]_vars

\* ---- C17
\* C17: the message of every ERROR status written by run_content_generation
\* is at most 500 characters long.
C17_MessageBounded ==
    \A r \in Runs : \A i \in 1..Len(run[r].writes) :
        run[r].writes[i].status.status_text = "error" =>
            run[r].writes[i].status.message.len <= ErrorTruncation

\* ---- C19
\* C19: within one invocation every terminal status (SUCCESS or ERROR) the
\* run writes is preceded by a PROCESSING write of the same run, on the
\* success path and on every failure path.
C19_ProcessingFirst ==
    \A r \in Runs : \A i \in 1..Len(run[r].writes) :
        Terminal(run[r].writes[i].status) =>
            \E j \in 1..(i - 1) : run[r].writes[j].status = StatusProcessing

\* ---- C18
\* A GET status request is answered in this step.
Polls == polled' # polled

C18_Step ==
    Polls => UNCHANGED <<deskCfg, deskStatus, content, sse_client_queues, run, stream>>

C18_State ==
    /\ \A i \in 1..Len(polled) :
          polled[i].resp = 200 /\ polled[i].at = deskCfg[polled[i].desk].updated_at
              => polled[i].status = deskStatus[polled[i].desk]
    /\ Len(polled) = 2 /\ polled[1].resp = 200 /\ polled[2].resp = 200
          /\ polled[1].desk = polled[2].desk /\ polled[1].at = polled[2].at
              => polled[1].status = polled[2].status

\* C18: answering GET status changes nothing in the stores, the registry, the
\* runs or the streams; an answer is the stored status as long as no status
\* write has been persisted since, and two answers for the same desk with no
\* persisted status write in between carry the same phase, status_text and
\* message.
C18_ReadOnlyStatus == [](C18_State) /\ [][C18_Step]_vars

\* Two consecutive answers for the desk, taken while its run is between the
\* PROCESSING write and the next one, carry the same PROCESSING status.
C18_Witness ==
    /\ Len(polled) = 2
    /\ polled[1].resp = 200 /\ polled[2].resp = 200
    /\ polled[1].desk = polled[2].desk
    /\ polled[1].at = polled[2].at
    /\ polled[1].status = StatusProcessing /\ polled[2].status = StatusProcessing
    /\ \E r \in Runs : InFlight(r) /\ run[r].desk = polled[1].desk

\* ---- C20
C20_State ==
    /\ \A r \in Runs :
          /\ run[r].pc = "idle" /\ CanStamp(OverlapDesk(r))
                /\ (\E q \in Runs : InFlight(q) /\ run[q].desk = OverlapDesk(r))
                => ENABLED (/\ Trigger(r, OverlapDesk(r), "run_content_generation")
                            /\ run'[r].resp = 202)
          /\ run[r].pc = "write" => ENABLED StatusWrite(r)
    /\ \A d \in DeskIds :
          deskCfg[d].updated_at # CreatedAt =>
              \E r \in Runs : \E i \in 1..Len(run[r].writes) :
                  /\ run[r].desk = d
                  /\ run[r].writes[i].at = deskCfg[d].updated_at
                  /\ run[r].writes[i].status = deskStatus[d]

C20_Step ==
    \A r \in Runs :
        Persists(r) => deskStatus'[run[r].desk] = StatusFor(run[r])

\* C20: a trigger for a desk is accepted (202) while another run of that desk
\* is in flight, a run that has reached a status write is never held back by
\* another run, and each persisted write replaces the stored status whatever
\* the other runs have written, so the stored status is always that of the
\* write persisted last.
C20_LastWriterWins == [](C20_State) /\ [][C20_Step]_vars

\* Runs a and b of one desk overlapped (both PROCESSING writes were persisted
\* before either terminal write), a failed and b succeeded.
OverlappedPair(a, b) ==
    /\ a # b /\ run[a].desk = run[b].desk
    /\ run[a].pc = "done" /\ run[b].pc = "done"
    /\ run[a].outcome = "raised" /\ run[b].outcome = "returned"
    /\ Len(run[a].writes) = 2 /\ Len(run[b].writes) = 2
    /\ \A i \in 1..2 : run[a].writes[i].ok /\ run[b].writes[i].ok
    /\ \A w \in {run[a].writes[1].at, run[b].writes[1].at} :
          w < run[a].writes[2].at /\ w < run[b].writes[2].at

\* On d1 the failed run wrote last and ERROR is stored; on d2 the successful
\* run wrote last and SUCCESS is stored.
C20_Witness ==
    \E a, b, c, e \in Runs :
        /\ OverlappedPair(a, b) /\ run[a].desk = "d1"
        /\ deskStatus["d1"] = StatusError(run[a].exc)
        /\ run[b].writes[2].at < run[a].writes[2].at
        /\ OverlappedPair(c, e) /\ run[c].desk = "d2"
        /\ deskStatus["d2"] = StatusComplete
        /\ run[c].writes[2].at < run[e].writes[2].at

\* ---- C21
\* The store rejects the status write of run r in this step.
WriteRejected(r) ==
    /\ run[r].pc = "write"
    /\ Len(run'[r].writes) = Len(run[r].writes) + 1
    /\ ~Last(run'[r].writes).ok

C21_Step ==
    \A r \in Runs :
        WriteRejected(r) =>
            /\ stream' = stream /\ sse_client_queues' = sse_client_queues
            /\ deskStatus' = deskStatus /\ content' = content
            /\ run'[r].exc = run[r].exc
            /\ run'[r].pc # "publish"
            /\ run[r].step = "proc" => run'[r].pc = "cget"
            /\ run[r].step = "succ" /\ run[r].kind = "run"
                  => run'[r].pc = "write" /\ run'[r].step = "all"
            /\ run'[r].outcome = "raised"
                  => run[r].step = "err" /\ run[r].kind = "run_content_generation"

C21_State ==
    \A r \in Runs : \A i \in 1..Len(run[r].writes) :
        ~run[r].writes[i].ok /\ i < Len(run[r].writes)
            => run[r].writes[i + 1].status # run[r].writes[i].status

\* C21: when the store rejects the status write of _update_status nothing is
\* published, no exception reaches the run (its pending outcome is what it
\* was), the stored status and the Content record stay as they are, the write
\* is not attempted again, and the run goes on with its next step: after a
\* rejected PROCESSING write, the pipeline call.
C21_WriteFailureSwallowed == [](C21_State) /\ [][C21_Step]_vars

\* The PROCESSING write of a run was rejected; the run went on, stored the
\* text and both SUCCESS statuses, and the subscriber that registered before
\* the run saw the two SUCCESS statuses only.
C21_Witness ==
    \E r \in Runs, s \in Streams :
        /\ run[r].pc = "done" /\ Len(run[r].writes) = 3
        /\ ~run[r].writes[1].ok /\ run[r].writes[1].status = StatusProcessing
        /\ content[run[r].desk].result = "X"
        /\ deskStatus[run[r].desk] = StatusAllDone
        /\ stream[s].pc = "listen" /\ stream[s].desk = run[r].desk
        /\ stream[s].events[1] = StatusEvent(DeskCreated)
        /\ Taken(s) = <<StatusComplete, StatusAllDone>>

\* ---- C22
\* Every run of the desk of stream s has ended and the queue of s is drained.
Settled(s) ==
    /\ stream[s].pc = "listen" /\ stream[s].queue = <<>>
    /\ \A r \in Runs : run[r].desk = stream[s].desk => ~InFlight(r)

C22_State ==
    \A s \in Streams :
        Settled(s) =>
            /\ stream[s].events # <<>>
            /\ Last(stream[s].events) = StatusEvent(deskStatus[stream[s].desk])

C22_Step ==
    \A s \in Streams :
        TakesSnapshot(s) =>
            /\ Len(stream'[s].events) = 1
            /\ stream'[s].events[1].event = "status_update"
            /\ stream'[s].events[1].data = deskStatus[stream[s].desk]

\* C22: a subscriber connecting at any point is first given the status that
\* is stored when its snapshot is read, and once every run of the desk has
\* ended and its queue is drained the last event it was given is the
\* status_update of the stored status.
C22_SnapshotCatchesUp == [](C22_State) /\ [][C22_Step]_vars

\* ---- C23
\* C23: every invocation that was scheduled reaches its end with a terminal
\* status write attempted, whatever the subscribers do: none registered, one
\* registered and reading, or one registered that never reads its queue.
C23_PublishNeverBlocks ==
    \A r \in Runs :
        InFlight(r) ~> (/\ run[r].pc = "done"
                        /\ run[r].writes # <<>>
                        /\ Terminal(Last(run[r].writes).status))

\* A run has ended with its three statuses persisted while the subscriber of
\* its desk has taken nothing off its queue, which holds all three.
C23_Witness ==
    \E r \in Runs, s \in Streams :
        /\ run[r].pc = "done" /\ Len(run[r].writes) = 3
        /\ \A i \in 1..3 : run[r].writes[i].ok
        /\ stream[s].desk = run[r].desk /\ Registered(s)
        /\ sse_client_queues[run[r].desk] = s
        /\ stream[s].queue = <<StatusProcessing, StatusComplete, StatusAllDone>>

\* ---- C24
\* A run that has itself persisted an ERROR status.
WroteError(r) ==
    \E i \in 1..Len(run[r].writes) :
        /\ run[r].writes[i].ok
        /\ run[r].writes[i].status.status_text = "error"

\* The pipeline is about to be invoked only by an invocation that has not
\* invoked it yet, and an invocation that failed is on its way out.
C24_State ==
    \A r \in Runs :
        /\ run[r].pc = "src" => ~run[r].sourced
        /\ (InFlight(r) /\ run[r].exc # NoExc) =>
               /\ run[r].step = "err"
               /\ run[r].pc \in {"write", "publish"}

C24_Step ==
    /\ \A r \in Runs :
           (run[r].sourced /\ run'[r].sourced) =>
               /\ run'[r].calls = run[r].calls
               /\ run'[r].pc # "src"
    /\ \A d \in DeskIds :
           (/\ deskStatus[d].status_text = "error"
            /\ deskStatus'[d] # deskStatus[d]) =>
               \E r \in Runs :
                   /\ run[r].desk = d /\ run[r].pc = "write"
                   /\ ~WroteError(r)
                   /\ run'[r].writes = Append(run[r].writes, Last(run'[r].writes))
                   /\ Last(run'[r].writes).ok

\* C24: a failed phase is never retried: each trigger invokes the generation
\* pipeline at most once, and a stored ERROR status changes only by a status
\* write of an invocation triggered afterwards.
C24_NoRetry == [](C24_State) /\ [][C24_Step]_vars

\* The pipeline was invoked and failed, the run has ended with its ERROR
\* stored, and no invocation is in flight.
C24_Witness ==
    /\ Quiet
    /\ \E r \in Runs :
        /\ run[r].pc = "done" /\ run[r].sourced /\ run[r].exc # NoExc
        /\ WroteError(r)
        /\ deskStatus[run[r].desk] = Last(run[r].writes).status
        /\ deskStatus[run[r].desk].status_text = "error"

\* ---- C25
\* C25: with no status-write failure, once every invocation on a desk has
\* completed, whatever their number, kinds and interleaving, the stored status
\* is terminal (SUCCESS or ERROR), never PROCESSING.
C25_TerminalAfterOverlap ==
    \A d \in DeskIds :
        (/\ \A r \in Runs : run[r].desk = d => Ended(r)
         /\ \E r \in Runs : run[r].desk = d /\ run[r].pc = "done") =>
            /\ Terminal(deskStatus[d])
            /\ deskStatus[d].status_text # "processing"
            /\ \E r \in Runs :
                   /\ run[r].desk = d /\ run[r].pc = "done"
                   /\ deskStatus[d] = Last(run[r].writes).status

\* A run() and a run_content_generation() of one desk have both completed, and
\* the one whose PROCESSING was stored last finished first: its PROCESSING
\* overwrote a status of the other, whose terminal write came last.
C25_Witness ==
    \E a, b \in Runs :
        /\ run[a].kind = "run" /\ run[b].kind = "run_content_generation"
        /\ run[a].desk = "d1" /\ run[b].desk = "d1"
        /\ run[a].pc = "done" /\ run[b].pc = "done"
        /\ Len(run[a].writes) = 3 /\ Len(run[b].writes) = 2
        /\ run[a].writes[1].at < run[b].writes[1].at
        /\ run[b].writes[1].at < run[a].writes[2].at
        /\ run[b].writes[2].at < run[a].writes[3].at
        /\ deskStatus["d1"] = run[a].writes[3].status

\* ---- C26
\* The statuses a subscriber has been handed, snapshot first.
IsStatusUpdate(ev) == ev.event = "status_update"

Received(s) ==
    LET evs == SelectSeq(stream[s].events, IsStatusUpdate)
    IN  [i \in 1..Len(evs) |-> evs[i].data]

\* The status writes invocations have made on desk d.
WritesOn(d) ==
    UNION {{run[r].writes[i] : i \in 1..Len(run[r].writes)} :
               r \in {q \in Runs : run[q].desk = d}}

\* The stamp the store gave the write of status st on desk d; the status the
\* desk was created with carries the creation stamp.
StampOf(d, st) ==
    LET ws == {w \in WritesOn(d) : w.ok /\ w.status = st}
    IN  IF ws = {} THEN CreatedAt ELSE (CHOOSE w \in ws : TRUE).at

\* C26: the status_update events a subscriber receives follow persistence
\* order: each was persisted strictly later than every one received before
\* it, so none is older than one already received and no write comes twice.
C26_PersistenceOrder ==
    \A s \in Streams :
        \A i, j \in 1..Len(Received(s)) :
            i < j => StampOf(stream[s].desk, Received(s)[i])
                        < StampOf(stream[s].desk, Received(s)[j])

\* ---- C27
\* Run r makes its Content record write in this step.
WritesResult(r) == run[r].pc = "cupd" /\ run'[r].pc # "cupd"

\* C27: a generation run changes only the result of the Content record: the
\* feedback stored when the run writes its result, such as one written through
\* update_content after the run read the record, is still stored afterwards.
C27_FeedbackKept ==
    [][\A r \in Runs :
          WritesResult(r) =>
              content'[run[r].desk].feedback = content[run[r].desk].feedback]_vars

\* ---- C28
IsPersisted(w) == w.ok

PersistedStatuses(r) ==
    LET ws == SelectSeq(run[r].writes, IsPersisted)
    IN  [i \in 1..Len(ws) |-> ws[i].status]

\* An invocation is past the store write of _update_status only when that
\* write succeeded, and what subscribers took off or hold on their queues are
\* persisted statuses.
C28_State ==
    /\ \A r \in Runs :
           run[r].pc = "publish" =>
               /\ run[r].writes # <<>>
               /\ Last(run[r].writes).ok
               /\ Last(run[r].writes).status = StatusFor(run[r])
    /\ \A s \in Streams :
           \A i \in 1..Len(stream[s].queue) :
               \E w \in WritesOn(stream[s].desk) :
                   w.ok /\ w.status = stream[s].queue[i]

C28_Step ==
    \A s \in Streams :
        Len(stream'[s].queue) > Len(stream[s].queue) =>
            \E r \in Runs :
                /\ Publishes(r) /\ run[r].desk = stream[s].desk
                /\ Last(run[r].writes).ok
                /\ stream'[s].queue = Append(stream[s].queue, Last(run[r].writes).status)

\* C28: every status put on a subscriber queue was persisted before it was
\* enqueued; a status whose store write failed is never published.
C28_PublishAfterPersist == [](C28_State) /\ [][C28_Step]_vars

\* A run has ended with one of its status writes rejected by the store; the
\* subscriber, connected before the run's first write, was handed the
\* persisted statuses and not the rejected one.
C28_Witness ==
    \E r \in Runs, s \in Streams :
        /\ run[r].pc = "done" /\ stream[s].desk = run[r].desk
        /\ stream[s].pc = "listen" /\ stream[s].queue = <<>>
        /\ stream[s].events # <<>>
        /\ stream[s].events[1] = StatusEvent(DeskCreated)
        /\ \E i \in 1..Len(run[r].writes) : ~run[r].writes[i].ok
        /\ PersistedStatuses(r) # <<>>
        /\ Taken(s) = PersistedStatuses(r)

\* ---- C29
\* A connection that was turned away as busy.
Rejected(s) == stream[s].pc = "closed" /\ stream[s].events = BusyEvents

\* The subscriber whose queue is registered for the desk of stream s.
Holder(s) == sse_client_queues[stream[s].desk]

C29_State ==
    \A s \in Streams :
        Rejected(s) => \A d \in DeskIds : sse_client_queues[d] # s

C29_Step ==
    /\ \A s \in Streams :
           ArrivesBusy(s) =>
               LET h == sse_client_queues[stream'[s].desk]
               IN  /\ sse_client_queues'[stream'[s].desk] = h
                   /\ Registered(h)
                   /\ stream'[h] = stream[h]
    /\ \A s \in Streams :
           Rejected(s) =>
               /\ stream'[s] = stream[s]
               /\ (Holder(s) # NoStream /\ sse_client_queues'[stream[s].desk] # Holder(s)) =>
                      /\ stream'[Holder(s)].pc = "closed"
                      /\ sse_client_queues'[stream[s].desk] = NoStream
               /\ \A r \in Runs :
                      (Publishes(r) /\ run[r].desk = stream[s].desk /\ Holder(s) # NoStream) =>
                          /\ sse_client_queues'[stream[s].desk] = Holder(s)
                          /\ stream'[Holder(s)].queue =
                                 Append(stream[Holder(s)].queue, Last(run[r].writes).status)

\* C29: a connection rejected as "Resource Busy" leaves the hub untouched: the
\* registration of the connected subscriber is neither removed nor replaced by
\* the rejection or by anything the rejected connection does afterwards, and
\* every status published later is put on that subscriber's queue until it
\* leaves by itself.
C29_BusyLeavesHub == [](C29_State) /\ [][C29_Step]_vars

\* A connection to desk d1 has been rejected, the first subscriber is still
\* listening, and a run of d1 is about to publish a status it has persisted.
C29_Witness ==
    \E s, h \in Streams, r \in Runs :
        /\ Rejected(s) /\ stream[s].desk = "d1"
        /\ Holder(s) = h /\ h # s /\ stream[h].pc = "listen"
        /\ run[r].desk = "d1" /\ run[r].pc = "publish"

\* ---- C30
\* The stored status of r's desk is a SUCCESS that run r wrote.
SuccessStoredBy(r) ==
    \E i \in 1..Len(run[r].writes) :
        /\ run[r].writes[i].ok
        /\ run[r].writes[i].status.status_text = "success"
        /\ run[r].writes[i].at = deskCfg[run[r].desk].updated_at
        /\ deskStatus[run[r].desk] = run[r].writes[i].status

C30_State ==
    \A r \in Runs :
        SuccessStoredBy(r) =>
            /\ run[r].sourced
            /\ run[r].pc \notin {"load", "cget", "src", "cupd"}
            /\ content[run[r].desk].result = run[r].formatted

\* A SUCCESS status is written only by a run whose result is in the Content
\* record already, and the run does not touch the record afterwards.
C30_Step ==
    \A r \in Runs :
        /\ (run[r].pc = "write" /\ run[r].step \in {"succ", "all"}) =>
               /\ run[r].sourced
               /\ content[run[r].desk].result = run[r].formatted
        /\ (InFlight(r) /\ run[r].pc \in {"write", "publish"}) =>
               content'[run[r].desk].result = content[run[r].desk].result

\* C30: in every run the Content record's result is written before the run's
\* SUCCESS status is written and published: whenever the stored status is a
\* SUCCESS written by run r, the Content record holds the result of r.
C30_ResultBeforeSuccess == [](C30_State) /\ [][C30_Step]_vars

\* The SUCCESS of a run that is still in flight is the stored status, and the
\* Content record holds the text the run generated instead of the blank result
\* it started from.
C30_Witness ==
    \E r \in Runs :
        /\ SuccessStoredBy(r) /\ InFlight(r)
        /\ run[r].formatted = "X"
        /\ content[run[r].desk].result = "X"

====
